---- MODULE Spec2Model ----
(***************************************************************************)
(* Global search of ORAHV3: the client search controller (the hook         *)
(* useGlobalSearch) and the server aggregation handler (the edge function  *)
(* global-search) with the recent_searches table and its pruning trigger.  *)
(***************************************************************************)
EXTENDS Integers, Sequences, FiniteSets, TLC

(* ------------------------------------------------------------------ *)
(* Bounds of the model                                                   *)
(* ------------------------------------------------------------------ *)

\* number of search() invocations of one mounted controller
MaxCalls == 2

\* number of outstanding fetchRecentSearches() lookups that are tracked
MaxRecentLookups == 1

(* ------------------------------------------------------------------ *)
(* Strings are sequences of one-character strings                        *)
(* ------------------------------------------------------------------ *)

StrLen(s) == Len(s)

(* ------------------------------------------------------------------ *)
(* Client search controller: useGlobalSearch                             *)
(* ------------------------------------------------------------------ *)

VARIABLES
    query,            \* useState: the text of the input
    results,          \* useState: SearchResult[]
    categories,       \* useState: the category map, buckets in insertion order
    isLoading,        \* useState
    error,            \* useState: "null" or a message
    recentSearches,   \* useState: string[]
    debounceTimer,    \* the pending timers (their callbacks' queries, oldest first)
                      \* and whether the timer debounceTimerRef holds is pending
    abortRef,         \* abortControllerRef.current: 0 is null, n the n-th controller
    aborted,          \* the AbortControllers whose abort() has been called
    calls,            \* the invocations of search(): position, query, fetch signal
    nCalls,           \* how many invocations of search() passed the length guard
    lastIssued,       \* the invocation whose fetch() was issued last, 0 if none
    recentLookups,    \* outstanding fetchRecentSearches() calls
    mounted,          \* FALSE once the component has been torn down
    superseded        \* the invocations whose fetch is in flight and has seen a keystroke

(* the state of the command palette: the GlobalSearch component *)
VARIABLES
    isOpen,           \* useState
    selectedIndex,    \* useState, an index into flatResults, from 0
    location,         \* the path of the last navigate(), "" before any
    clicks,           \* the invocations of trackClick() that have not completed
    analytics         \* the rows of search_analytics inserted so far

paletteVars == <<isOpen, selectedIndex, location, clicks, analytics>>

paletteRest == <<isOpen, location, clicks, analytics>>

hookVars == <<query, results, categories, isLoading, error, recentSearches,
              debounceTimer, abortRef, aborted, calls, nCalls, lastIssued,
              recentLookups, mounted, superseded>>

clientVars == <<query, results, categories, isLoading, error, recentSearches,
                debounceTimer, abortRef, aborted, calls, nCalls, lastIssued,
                recentLookups, mounted, superseded, paletteVars>>



(* the state of the server: the global-search handler and recent_searches *)
VARIABLES
    sPc,            \* position of the handler: idle, auth, body, fanout, upsert, done
    req,            \* the request: method, bearer token, JSON body
    userProfile,    \* the row of users read for the caller
    intents,        \* detectQueryIntent(query)
    adapters,       \* the four promises of Promise.all: state and resolved value
    queried,        \* the adapters that sent a query to the store in this request
    failed,         \* the adapters whose query returned an error in this request
    sResults,       \* the results array of the handler
    sCategories,    \* the categories object of the handler, keys in insertion order
    response,       \* the Response returned
    recentStore,    \* the rows of recent_searches
    clock,          \* new Date()
    nRequests,      \* requests received so far
    touchLog        \* every write to recent_searches that succeeded: user, query, time

serverVars == <<sPc, req, userProfile, intents, adapters, queried, failed, sResults,
                sCategories, response, recentStore, clock, nRequests, touchLog>>
(* ------------------------------------------------------------------ *)
(* String operations of the server handler                               *)
(* ------------------------------------------------------------------ *)

UpperLetters == <<"A", "B", "C", "D", "E", "F", "G", "H", "I", "J", "K", "L", "M",
                  "N", "O", "P", "Q", "R", "S", "T", "U", "V", "W", "X", "Y", "Z">>

LowerLetters == <<"a", "b", "c", "d", "e", "f", "g", "h", "i", "j", "k", "l", "m",
                  "n", "o", "p", "q", "r", "s", "t", "u", "v", "w", "x", "y", "z">>

Digits == {"0", "1", "2", "3", "4", "5", "6", "7", "8", "9"}

SeqRange(s) == {s[k] : k \in DOMAIN s}

UpperSet == SeqRange(UpperLetters)

LetterSet == SeqRange(UpperLetters) \cup SeqRange(LowerLetters)

IsLetter(c) == c \in LetterSet

\* \s of the regular expressions
IsSpace(c) == c \in {" "}

\* \w of the regular expressions
IsWord(c) == IsLetter(c) \/ c \in Digits \/ c = "_"

IsHex(c) == c \in Digits \cup {"a", "b", "c", "d", "e", "f", "A", "B", "C", "D", "E", "F"}

LowerOf ==
    [c \in UpperSet |-> LowerLetters[CHOOSE k \in DOMAIN UpperLetters : UpperLetters[k] = c]]

LowerChar(c) == IF c \in UpperSet THEN LowerOf[c] ELSE c

\* String.prototype.toLowerCase
ToLowerCase(s) == [k \in DOMAIN s |-> LowerChar(s[k])]

\* String.prototype.trim
Trim(s) ==
    LET keep == {k \in DOMAIN s : ~IsSpace(s[k])}
    IN  IF keep = {} THEN <<>>
        ELSE LET lo == CHOOSE k \in keep : \A j \in keep : k <= j
                 hi == CHOOSE k \in keep : \A j \in keep : k >= j
             IN  SubSeq(s, lo, hi)

\* query.replace(/\s/g, '')
StripSpaces(s) == SelectSeq(s, LAMBDA c : ~IsSpace(c))

\* String.prototype.includes
Includes(text, part) ==
    \E k \in 0..(Len(text) - Len(part)) : SubSeq(text, k + 1, k + Len(part)) = part

\* the LIKE pattern language of the store: % any run, _ any character,
\* backslash escapes the next character
RECURSIVE LikeMatch(_, _)
LikeMatch(p, t) ==
    IF p = <<>> THEN t = <<>>
    ELSE IF Head(p) = "%"
         THEN LikeMatch(Tail(p), t) \/ (t # <<>> /\ LikeMatch(p, Tail(t)))
    ELSE IF Head(p) = "\\" /\ Len(p) >= 2
         THEN t # <<>> /\ Head(t) = p[2] /\ LikeMatch(Tail(Tail(p)), Tail(t))
    ELSE t # <<>> /\ (Head(p) = "_" \/ Head(p) = Head(t)) /\ LikeMatch(Tail(p), Tail(t))

\* column ILIKE pattern; a NULL column (the empty sequence) matches nothing
Null == <<>>

ILike(column, pattern) ==
    /\ column # Null
    /\ LikeMatch(ToLowerCase(pattern), ToLowerCase(column))

(* ------------------------------------------------------------------ *)
(* detectQueryIntent                                                     *)
(* ------------------------------------------------------------------ *)

\* /^[^\s@]+@[^\s@]+\.[^\s@]+$/
emailRegex(s) ==
    \E i \in DOMAIN s : \E j \in DOMAIN s :
        /\ 1 < i /\ i + 1 < j /\ j < Len(s)
        /\ s[i] = "@" /\ s[j] = "."
        /\ \A k \in DOMAIN s : k # i => (~IsSpace(s[k]) /\ s[k] # "@")

\* /^[+]?[\d\s()-]{7,}$/
phoneRegex(s) ==
    LET body(t) == /\ Len(t) >= 7
                   /\ \A k \in DOMAIN t : t[k] \in Digits \cup {"(", ")", "-"} \/ IsSpace(t[k])
    IN  \/ body(s)
        \/ s # <<>> /\ s[1] = "+" /\ body(Tail(s))

\* /^[0-9a-f]{8}-[0-9a-f]{4}-[0-9a-f]{4}-[0-9a-f]{4}-[0-9a-f]{12}$/i
uuidRegex(s) ==
    /\ Len(s) = 36
    /\ \A k \in DOMAIN s : IF k \in {9, 14, 19, 24} THEN s[k] = "-" ELSE IsHex(s[k])

\* /^(https?:\/\/)?([\w.-]+)\.([a-z]{2,})/i
urlRegex(s) ==
    LET low == ToLowerCase(s)
        http == <<"h", "t", "t", "p", ":", "/", "/">>
        https == <<"h", "t", "t", "p", "s", ":", "/", "/">>
        starts == {1} \cup (IF Len(low) >= 7 /\ SubSeq(low, 1, 7) = http THEN {8} ELSE {})
                      \cup (IF Len(low) >= 8 /\ SubSeq(low, 1, 8) = https THEN {9} ELSE {})
    IN  \E b \in starts : \E d \in DOMAIN s :
            /\ b < d /\ d + 2 <= Len(s)
            /\ \A k \in b..(d - 1) : IsWord(s[k]) \/ s[k] \in {".", "-"}
            /\ s[d] = "."
            /\ IsLetter(s[d + 1]) /\ IsLetter(s[d + 2])

\* the classifier with the push of 'text' made unconditional
detectQueryIntentAlwaysText(q) ==
    (IF emailRegex(Trim(q)) THEN <<"email">> ELSE <<>>)
    \o (IF phoneRegex(StripSpaces(q)) THEN <<"phone">> ELSE <<>>)
    \o (IF uuidRegex(Trim(q)) THEN <<"id">> ELSE <<>>)
    \o (IF urlRegex(Trim(q)) THEN <<"url">> ELSE <<>>)
    \o <<"text">>

detectQueryIntent(q) ==
    LET found == (IF emailRegex(Trim(q)) THEN <<"email">> ELSE <<>>)
                   \o (IF phoneRegex(StripSpaces(q)) THEN <<"phone">> ELSE <<>>)
                   \o (IF uuidRegex(Trim(q)) THEN <<"id">> ELSE <<>>)
                   \o (IF urlRegex(Trim(q)) THEN <<"url">> ELSE <<>>)
    IN  IF Len(found) = 0 THEN <<"text">> ELSE found

\* Array.prototype.includes on a list of strings
Has(list, x) == \E k \in DOMAIN list : list[k] = x

(* ------------------------------------------------------------------ *)
(* The static catalogues of searchSettings and searchNavigation          *)
(* ------------------------------------------------------------------ *)

settingsItems ==
    << [id |-> "profile", title |-> <<"P", "r", "o", "f", "i", "l", "e", " ", "S", "e", "t", "t", "i", "n", "g", "s">>,
        subtitle |-> <<"M", "a", "n", "a", "g", "e", " ", "y", "o", "u", "r", " ", "p", "r", "o", "f", "i", "l", "e">>, url |-> "/settings"],
       [id |-> "notifications", title |-> <<"N", "o", "t", "i", "f", "i", "c", "a", "t", "i", "o", "n", " ", "S", "e", "t", "t", "i", "n", "g", "s">>,
        subtitle |-> <<"C", "o", "n", "f", "i", "g", "u", "r", "e", " ", "a", "l", "e", "r", "t", "s">>, url |-> "/settings"],
       [id |-> "integrations", title |-> <<"I", "n", "t", "e", "g", "r", "a", "t", "i", "o", "n", "s">>,
        subtitle |-> <<"C", "o", "n", "n", "e", "c", "t", " ", "e", "x", "t", "e", "r", "n", "a", "l", " ", "s", "e", "r", "v", "i", "c", "e", "s">>, url |-> "/integrations"],
       [id |-> "api-keys", title |-> <<"A", "P", "I", " ", "K", "e", "y", "s">>,
        subtitle |-> <<"M", "a", "n", "a", "g", "e", " ", "A", "P", "I", " ", "c", "r", "e", "d", "e", "n", "t", "i", "a", "l", "s">>, url |-> "/settings"],
       [id |-> "company", title |-> <<"C", "o", "m", "p", "a", "n", "y", " ", "S", "e", "t", "t", "i", "n", "g", "s">>,
        subtitle |-> <<"O", "r", "g", "a", "n", "i", "z", "a", "t", "i", "o", "n", " ", "p", "r", "e", "f", "e", "r", "e", "n", "c", "e", "s">>, url |-> "/settings"] >>

navItems ==
    << [id |-> "dashboard", title |-> <<"D", "a", "s", "h", "b", "o", "a", "r", "d">>,
        subtitle |-> <<"O", "v", "e", "r", "v", "i", "e", "w", " ", "&", " ", "s", "t", "a", "t", "s">>, url |-> "/dashboard",
        keywords |-> << <<"h", "o", "m", "e">>, <<"o", "v", "e", "r", "v", "i", "e", "w">>, <<"s", "t", "a", "t", "s">>, <<"m", "e", "t", "r", "i", "c", "s">> >>],
       [id |-> "leads", title |-> <<"L", "e", "a", "d", "s">>,
        subtitle |-> <<"M", "a", "n", "a", "g", "e", " ", "l", "e", "a", "d", "s">>, url |-> "/leads",
        keywords |-> << <<"c", "o", "n", "t", "a", "c", "t", "s">>, <<"p", "r", "o", "s", "p", "e", "c", "t", "s">>, <<"c", "u", "s", "t", "o", "m", "e", "r", "s">> >>],
       [id |-> "analytics", title |-> <<"A", "n", "a", "l", "y", "t", "i", "c", "s">>,
        subtitle |-> <<"C", "h", "a", "r", "t", "s", " ", "&", " ", "i", "n", "s", "i", "g", "h", "t", "s">>, url |-> "/analytics",
        keywords |-> << <<"r", "e", "p", "o", "r", "t", "s">>, <<"d", "a", "t", "a">>, <<"c", "h", "a", "r", "t", "s">>, <<"g", "r", "a", "p", "h", "s">> >>],
       [id |-> "call-analytics", title |-> <<"C", "a", "l", "l", " ", "A", "n", "a", "l", "y", "t", "i", "c", "s">>,
        subtitle |-> <<"C", "a", "l", "l", " ", "m", "e", "t", "r", "i", "c", "s">>, url |-> "/call-analytics",
        keywords |-> << <<"c", "a", "l", "l", "s">>, <<"p", "h", "o", "n", "e">>, <<"c", "o", "n", "v", "e", "r", "s", "a", "t", "i", "o", "n", "s">> >>],
       [id |-> "agents", title |-> <<"A", "g", "e", "n", "t", "s">>,
        subtitle |-> <<"A", "I", " ", "v", "o", "i", "c", "e", " ", "a", "g", "e", "n", "t", "s">>, url |-> "/agents",
        keywords |-> << <<"a", "i">>, <<"v", "o", "i", "c", "e">>, <<"b", "o", "t", "s">>, <<"a", "s", "s", "i", "s", "t", "a", "n", "t", "s">> >>],
       [id |-> "integrations", title |-> <<"I", "n", "t", "e", "g", "r", "a", "t", "i", "o", "n", "s">>,
        subtitle |-> <<"C", "o", "n", "n", "e", "c", "t", " ", "a", "p", "p", "s">>, url |-> "/integrations",
        keywords |-> << <<"c", "o", "n", "n", "e", "c", "t">>, <<"a", "p", "p", "s">>, <<"s", "e", "r", "v", "i", "c", "e", "s">>, <<"a", "p", "i">> >>],
       [id |-> "settings", title |-> <<"S", "e", "t", "t", "i", "n", "g", "s">>,
        subtitle |-> <<"P", "r", "e", "f", "e", "r", "e", "n", "c", "e", "s">>, url |-> "/settings",
        keywords |-> << <<"c", "o", "n", "f", "i", "g">>, <<"p", "r", "e", "f", "e", "r", "e", "n", "c", "e", "s">>, <<"a", "c", "c", "o", "u", "n", "t">> >>] >>

(* ------------------------------------------------------------------ *)
(* The data store read by the adapters                                   *)
(* ------------------------------------------------------------------ *)

\* the rows of the leads table, in heap order
leadsTable ==
    << [id |-> "l1", company_id |-> "c1", name |-> <<"L", "e", "a">>, email |-> <<"a", "@", "b", ".", "c", "o">>,
        mobile |-> <<"5", "5", "5", "0", "1", "0", "1">>, status |-> <<"n", "e", "w">>],
       [id |-> "l2", company_id |-> "c1", name |-> <<"L", "e", "e">>, email |-> Null,
        mobile |-> <<"5", "5", "5", "0", "1", "0", "1">>, status |-> <<"n", "e", "w">>],
       [id |-> "l3", company_id |-> "c1", name |-> <<"L", "e", "o">>, email |-> Null,
        mobile |-> Null, status |-> <<"n", "e", "w">>],
       [id |-> "l4", company_id |-> "c1", name |-> <<"L", "e", "n">>, email |-> Null,
        mobile |-> Null, status |-> <<"n", "e", "w">>],
       [id |-> "l5", company_id |-> "c1", name |-> <<"L", "e", "s">>, email |-> Null,
        mobile |-> Null, status |-> <<"n", "e", "w">>],
       [id |-> "l6", company_id |-> "c1", name |-> <<"L", "e", "v">>, email |-> Null,
        mobile |-> Null, status |-> <<"n", "e", "w">>],
       [id |-> "l7", company_id |-> "c1", name |-> <<"L", "e", "x">>, email |-> Null,
        mobile |-> Null, status |-> <<"n", "e", "w">>],
       [id |-> "l8", company_id |-> "c1", name |-> <<"O", "l", "e">>, email |-> Null,
        mobile |-> Null, status |-> <<"n", "e", "w">>],
       [id |-> "l9", company_id |-> "c1", name |-> <<"A", "l", "e">>, email |-> Null,
        mobile |-> Null, status |-> <<"n", "e", "w">>],
       [id |-> "l10", company_id |-> "c1", name |-> <<"C", "l", "e">>, email |-> Null,
        mobile |-> Null, status |-> <<"n", "e", "w">>],
       [id |-> "l11", company_id |-> "c1", name |-> <<"I", "l", "e">>, email |-> Null,
        mobile |-> Null, status |-> <<"n", "e", "w">>],
       [id |-> "l12", company_id |-> "c2", name |-> <<"E", "l", "l", "e">>, email |-> Null,
        mobile |-> Null, status |-> <<"w", "o", "n">>],
       [id |-> "l13", company_id |-> "c2", name |-> Null, email |-> <<"l", "e", "@", "b", ".", "c", "o">>,
        mobile |-> Null, status |-> <<"n", "e", "w">>] >>

\* the rows of the users table, in heap order
usersTable ==
    << [id |-> "u1", company_id |-> "c1", name |-> <<"L", "e", "a">>, email |-> <<"a", "@", "b", ".", "c", "o">>,
        role |-> <<"a", "d", "m", "i", "n">>],
       [id |-> "u2", company_id |-> "c1", name |-> <<"C", "o", "l", "e">>, email |-> Null,
        role |-> <<"u", "s", "e", "r">>],
       [id |-> "u3", company_id |-> "c2", name |-> <<"L", "e", "x">>, email |-> Null,
        role |-> <<"u", "s", "e", "r">>],
       [id |-> "u4", company_id |-> "c2", name |-> <<"E", "l", "l", "e">>, email |-> <<"l", "e", "@", "b", ".", "c", "o">>,
        role |-> <<"a", "d", "m", "i", "n">>] >>

\* the rows of the agents table, in heap order
agentsTable ==
    << [id |-> "a1", company_id |-> "c1", name |-> <<"C", "l", "e", "o">>, voice |-> <<"a", "l", "l", "o", "y">>,
        is_active |-> TRUE],
       [id |-> "a2", company_id |-> "c2", name |-> <<"L", "e", "o">>, voice |-> <<"e", "c", "h", "o">>,
        is_active |-> FALSE] >>

\* the rows of the calls table, in heap order; lead_id is the inner join to leads
callsTable ==
    << [id |-> "k1", company_id |-> "c1", lead_id |-> "l1", summary |-> <<"s", "a", "l", "e">>,
        status |-> <<"c", "o", "m", "p", "l", "e", "t", "e", "d">>],
       [id |-> "k2", company_id |-> "c1", lead_id |-> "l2", summary |-> Null,
        status |-> <<"f", "a", "i", "l", "e", "d">>],
       [id |-> "k3", company_id |-> "c2", lead_id |-> "l12", summary |-> <<"r", "e", "s", "a", "l", "e">>,
        status |-> <<"c", "o", "m", "p", "l", "e", "t", "e", "d">>] >>

UnknownLead == <<"U", "n", "k", "n", "o", "w", "n", " ", "L", "e", "a", "d">>

UnknownUser == <<"U", "n", "k", "n", "o", "w", "n", " ", "U", "s", "e", "r">>

Unknown == <<"U", "n", "k", "n", "o", "w", "n">>

CallWith == <<"C", "a", "l", "l", " ", "w", "i", "t", "h", " ">>

VoiceActive == <<" ", "v", "o", "i", "c", "e", " ", "-", " ", "A", "c", "t", "i", "v", "e">>

VoiceInactive == <<" ", "v", "o", "i", "c", "e", " ", "-", " ", "I", "n", "a", "c", "t", "i", "v", "e">>

QueryTexts ==
    { <<>>,
      <<"a">>,
      <<"L", "e">>,
      <<"L", "e", " ">>,
      <<"L", "e", "(">>,
      <<"a", "@", "b", ".", "c", "o">>,
      <<"5", "5", "5", "0", "1", "0", "1">> }

\* ten earlier searches of u1, oldest first
HistoryTexts ==
    << <<"L", "e">>,
       <<"q", "1">>,
       <<"q", "2">>,
       <<"q", "3">>,
       <<"q", "4">>,
       <<"q", "5">>,
       <<"q", "6">>,
       <<"q", "7">>,
       <<"q", "8">>,
       <<"q", "9">> >>

(* ------------------------------------------------------------------ *)
(* Server: the global-search request handler                             *)
(* ------------------------------------------------------------------ *)

\* requests handled one after the other in one behaviour
MaxRequests == 2

\* matching rows up to this number are yielded in every order; a longer
\* list is yielded in heap order or in reverse heap order
MaxPermuted == 2

\* LIMIT 10 of limit_recent_searches()
RetentionLimit == 10

\* const { limit = 10 } = body
DefaultLimit == 10

LeadBase == 100
UserBase == 80
AgentBase == 70
CallBase == 60
SettingBase == 50
NavigationBase == 90

Dynamic == {"leads", "users", "agents", "calls"}

\* Authorization header: none, a token the identity provider rejects, or the
\* token of a user; u9 is a user of the identity provider without a users row
Tokens == {"none", "bad", "u1", "u3", "u9"}

Methods == {"POST", "OPTIONS"}

\* body.query: absent, a number (5), or a string
QueryInputs ==
    {[kind |-> "missing", text |-> <<>>], [kind |-> "number", text |-> <<>>]}
    \cup {[kind |-> "string", text |-> t] : t \in QueryTexts}

\* body.filters, absent is []
FilterInputs == { <<>>, <<"leads", "users">> }

\* body.limit: absent or an integer
LimitInputs == {[has |-> FALSE, val |-> 0]} \cup {[has |-> TRUE, val |-> v] : v \in {-1, 12}}

NoRequest == [method |-> "POST", token |-> "none",
              body |-> [query |-> [kind |-> "missing", text |-> <<>>],
                        filters |-> <<>>, limit |-> [has |-> FALSE, val |-> 0]]]

NoProfile == [id |-> "", company_id |-> "", role |-> <<>>]

NoResponse == [status |-> 0, body |-> "none", results |-> <<>>, categories |-> <<>>,
               totalCount |-> 0, intents |-> <<>>]

Pending == [state |-> "pending", value |-> <<>>]

Resolved(v) == [state |-> "resolved", value |-> v]

\* new Response(JSON.stringify({ error: ... }), { status })
ErrorResponse(status) ==
    [status |-> status, body |-> "error", results |-> <<>>, categories |-> <<>>,
     totalCount |-> 0, intents |-> <<>>]

\* new Response(JSON.stringify({ results: [], categories: {} }), { status: 200 })
EmptyResponse ==
    [status |-> 200, body |-> "short", results |-> <<>>, categories |-> <<>>,
     totalCount |-> 0, intents |-> <<>>]

\* the query, filters and limit destructured from the body
Query == req.body.query.text
Filters == req.body.filters
Limit == IF req.body.limit.has THEN req.body.limit.val ELSE DefaultLimit

\* `%${query.toLowerCase()}%`
searchPattern == <<"%">> \o ToLowerCase(Query) \o <<"%">>

\* the character class of escapeSearchQuery
SpecialChars == {"&", "|", "!", "(", ")", ":", "<", ">", "*", "\\", "\"", "'"}

\* query.replace(/[&|!():<>*\\"']/g, ' ').trim()
escapeSearchQuery(q) ==
    Trim([k \in DOMAIN q |-> IF q[k] \in SpecialChars THEN " " ELSE q[k]])

\* escaped.split(/\s+/).filter(w => w.length > 0)
RECURSIVE Words(_)
Words(s) ==
    IF s = <<>> THEN <<>>
    ELSE IF IsSpace(s[1]) THEN Words(Tail(s))
    ELSE LET n == IF \E k \in DOMAIN s : IsSpace(s[k])
                  THEN (CHOOSE k \in DOMAIN s :
                          IsSpace(s[k]) /\ \A j \in 1..(k - 1) : ~IsSpace(s[j])) - 1
                  ELSE Len(s)
         IN  <<SubSeq(s, 1, n)>> \o Words(SubSeq(s, n + 1, Len(s)))

\* words.map(w => `${w}:*`).join(' & ')
RECURSIVE JoinPrefixes(_)
JoinPrefixes(ws) ==
    IF ws = <<>> THEN <<>>
    ELSE IF Len(ws) = 1 THEN ws[1] \o <<":", "*">>
    ELSE ws[1] \o <<":", "*", " ", "&", " ">> \o JoinPrefixes(Tail(ws))

createFuzzyPattern(q) == JoinPrefixes(Words(escapeSearchQuery(q)))

\* computed by searchLeads and passed to no filter
tsQuery == createFuzzyPattern(Query)

companyId == userProfile.company_id
isAdmin == userProfile.role = <<"a", "d", "m", "i", "n">>

\* adapters that do not look at the filters
FilteredOutNever(type) == FALSE

\* filters.length > 0 && !filters.includes(type)
FilteredOut(type) == Len(Filters) > 0 /\ ~Has(Filters, type)

(* ---- the store's answer to a query ---- *)

Reverse(s) == [k \in DOMAIN s |-> s[Len(s) + 1 - k]]

AllOrders(s) ==
    LET n == Len(s)
        bij == {f \in [1..n -> 1..n] : \A a, b \in 1..n : f[a] = f[b] => a = b}
    IN  {[k \in 1..n |-> s[f[k]]] : f \in bij}

\* no ORDER BY: the store yields the matching rows in an order of its choice
YieldOrders(rows) ==
    IF Len(rows) <= MaxPermuted THEN AllOrders(rows) ELSE {rows, Reverse(rows)}

\* .limit(n), n >= 0: the first n rows
Take(rows, n) ==
    IF n >= Len(rows) THEN rows ELSE SubSeq(rows, 1, n)

LeadRowMatches(r) ==
    /\ r.company_id = companyId
    /\ IF Has(intents, "email") THEN ILike(r.email, searchPattern)
       ELSE IF Has(intents, "phone") THEN ILike(r.mobile, searchPattern)
       ELSE \/ ILike(r.name, searchPattern)
            \/ ILike(r.email, searchPattern)
            \/ ILike(r.mobile, searchPattern)

UserRowMatches(r) ==
    /\ r.company_id = companyId
    /\ ILike(r.name, searchPattern) \/ ILike(r.email, searchPattern)

AgentRowMatches(r) ==
    /\ r.company_id = companyId
    /\ ILike(r.name, searchPattern)

\* leads!inner: the call must have its lead
CallRowMatches(r) ==
    /\ r.company_id = companyId
    /\ ILike(r.summary, searchPattern)
    /\ \E k \in DOMAIN leadsTable : leadsTable[k].id = r.lead_id

Matching(a) ==
    CASE a = "leads" -> SelectSeq(leadsTable, LeadRowMatches)
      [] a = "users" -> SelectSeq(usersTable, UserRowMatches)
      [] a = "agents" -> SelectSeq(agentsTable, AgentRowMatches)
      [] a = "calls" -> SelectSeq(callsTable, CallRowMatches)

(* ---- the map of rows to SearchResult ---- *)

\* a || b on strings: the first that is not empty or null
OrElse(a, b) == IF a # <<>> THEN a ELSE b

LeadOfCall(r) == leadsTable[CHOOSE k \in DOMAIN leadsTable : leadsTable[k].id = r.lead_id]

SearchResult(id, type, title, subtitle, redirectUrl, priorityScore) ==
    [id |-> id, type |-> type, title |-> title, subtitle |-> subtitle,
     redirectUrl |-> redirectUrl, priorityScore |-> priorityScore]

MapRow(a, r, idx) ==
    CASE a = "leads" ->
           SearchResult(r.id, "lead", OrElse(r.name, UnknownLead),
                        OrElse(r.email, OrElse(r.mobile, r.status)),
                        "/leads/" \o r.id, LeadBase - idx)
      [] a = "users" ->
           SearchResult(r.id, "user", OrElse(r.name, UnknownUser),
                        OrElse(r.email, r.role), "/settings", UserBase - idx)
      [] a = "agents" ->
           SearchResult(r.id, "agent", r.name,
                        r.voice \o (IF r.is_active THEN VoiceActive ELSE VoiceInactive),
                        "/agents", AgentBase - idx)
      [] a = "calls" ->
           SearchResult(r.id, "call", CallWith \o OrElse(LeadOfCall(r).name, Unknown),
                        OrElse(SubSeq(r.summary, 1, IF Len(r.summary) < 50 THEN Len(r.summary) ELSE 50),
                               r.status),
                        "/call-analytics", CallBase - idx)

\* (data || []).map((row, idx) => ...)
MapRows(a, rows) == [k \in DOMAIN rows |-> MapRow(a, rows[k], k - 1)]

(* ---- the static adapters ---- *)

SettingMatches(item) ==
    \/ Includes(ToLowerCase(item.title), ToLowerCase(Query))
    \/ Includes(ToLowerCase(item.subtitle), ToLowerCase(Query))

searchSettings ==
    IF FilteredOut("settings") THEN <<>>
    ELSE LET hits == SelectSeq(settingsItems, SettingMatches)
         IN  [k \in DOMAIN hits |->
                 SearchResult(hits[k].id, "setting", hits[k].title, hits[k].subtitle,
                              hits[k].url, SettingBase - (k - 1))]

NavigationMatches(item) ==
    \/ Includes(ToLowerCase(item.title), ToLowerCase(Query))
    \/ Includes(ToLowerCase(item.subtitle), ToLowerCase(Query))
    \/ \E k \in DOMAIN item.keywords : Includes(item.keywords[k], ToLowerCase(Query))

searchNavigation ==
    LET hits == SelectSeq(navItems, NavigationMatches)
    IN  [k \in DOMAIN hits |->
            SearchResult(hits[k].id, "navigation", hits[k].title, hits[k].subtitle,
                         hits[k].url, NavigationBase - (k - 1))]

(* ---- merge, sort, categories ---- *)

\* a sort that is not stable: x goes before the elements of its own score
InsertBeforeEqual(sorted, x) ==
    LET before == {k \in DOMAIN sorted : sorted[k].priorityScore > x.priorityScore}
        n == Cardinality(before)
    IN  SubSeq(sorted, 1, n) \o <<x>> \o SubSeq(sorted, n + 1, Len(sorted))

\* where the comparator b.priorityScore - a.priorityScore puts x in a sorted
\* list: after every element that does not sort after it
InsertSorted(sorted, x) ==
    LET before == {k \in DOMAIN sorted : sorted[k].priorityScore >= x.priorityScore}
        n == Cardinality(before)
    IN  SubSeq(sorted, 1, n) \o <<x>> \o SubSeq(sorted, n + 1, Len(sorted))

\* results.sort((a, b) => b.priorityScore - a.priorityScore): stable
RECURSIVE SortByPriority(_)
SortByPriority(list) ==
    IF list = <<>> THEN <<>>
    ELSE InsertSorted(SortByPriority(SubSeq(list, 1, Len(list) - 1)), list[Len(list)])

\* for (const result of results) categories[result.type].push(result)
RECURSIVE Categorize(_, _)
Categorize(cats, list) ==
    IF list = <<>> THEN cats
    ELSE LET x == Head(list)
             known == \E k \in DOMAIN cats : cats[k].type = x.type
             next == IF known
                     THEN [k \in DOMAIN cats |->
                             IF cats[k].type = x.type
                             THEN [cats[k] EXCEPT !.items = Append(@, x)]
                             ELSE cats[k]]
                     ELSE Append(cats, [type |-> x.type, items |-> <<x>>])
         IN  Categorize(next, Tail(list))

\* Array.prototype.slice(0, n)
Slice0(list, n) ==
    LET end == IF n < 0 THEN (IF Len(list) + n < 0 THEN 0 ELSE Len(list) + n)
               ELSE IF n > Len(list) THEN Len(list) ELSE n
    IN  SubSeq(list, 1, end)

(* ---- recent_searches ---- *)

RowsOf(store, user) == {r \in store : r.user_id = user}

\* the rows of the user that are among the 10 latest by created_at
LatestRows(store, user) ==
    {r \in RowsOf(store, user) :
        Cardinality({o \in RowsOf(store, user) : o.created_at > r.created_at}) < RetentionLimit}

\* the trigger with ORDER BY created_at ASC: it keeps the 10 oldest rows
limit_oldest_searches(store, user) ==
    {r \in store :
        \/ r.user_id # user
        \/ Cardinality({o \in RowsOf(store, user) : o.created_at < r.created_at}) < RetentionLimit}

\* the trigger limit_recent_searches, AFTER INSERT FOR EACH ROW
limit_recent_searches(store, user) ==
    {r \in store : r.user_id # user \/ r \in LatestRows(store, user)}

\* upsert({user_id, query, created_at}, {onConflict: 'user_id,query'})
Upsert(store, user, text, now) ==
    IF \E r \in store : r.user_id = user /\ r.query = text
    THEN {IF r.user_id = user /\ r.query = text THEN [r EXCEPT !.created_at = now] ELSE r
             : r \in store}
    ELSE limit_recent_searches(
             store \cup {[user_id |-> user, query |-> text, created_at |-> now]}, user)

\* recent_searches after ten earlier searches of u1 and none of the others
HistoryStore ==
    {[user_id |-> "u1", query |-> HistoryTexts[k], created_at |-> k] : k \in DOMAIN HistoryTexts}

(* ---- the handler, one action per stretch between two awaits ---- *)

InitServer ==
    /\ sPc = "idle"
    /\ req = NoRequest
    /\ userProfile = NoProfile
    /\ intents = <<>>
    /\ adapters = [a \in Dynamic |-> Pending]
    /\ queried = {}
    /\ failed = {}
    /\ sResults = <<>>
    /\ sCategories = <<>>
    /\ response = NoResponse
    /\ recentStore = HistoryStore
    /\ clock = Cardinality(recentStore)
    /\ nRequests = 0
    /\ touchLog = HistoryStore

\* a request arrives; OPTIONS is answered at once
Receive ==
    /\ sPc = "idle"
    /\ nRequests < MaxRequests
    /\ nRequests' = nRequests + 1
    /\ \E method \in Methods : \E token \in Tokens : \E q \in QueryInputs :
       \E f \in FilterInputs : \E l \in LimitInputs :
           /\ req' = [method |-> method, token |-> token,
                      body |-> [query |-> q, filters |-> f, limit |-> l]]
           /\ IF method = "OPTIONS"
              THEN sPc' = "done" /\ response' = [NoResponse EXCEPT !.status = 200]
              ELSE sPc' = "auth" /\ response' = NoResponse
    /\ UNCHANGED <<userProfile, intents, adapters, queried, failed, sResults,
                   sCategories, recentStore, clock, touchLog>>
    /\ UNCHANGED clientVars

\* the handler without the check of the header at line 68: replace() is called
\* on null and the catch block answers
AuthenticateNoHeaderCheck ==
    /\ sPc = "auth"
    /\ IF req.token = "none"
       THEN /\ response' = ErrorResponse(500)
            /\ sPc' = "done"
            /\ UNCHANGED userProfile
       ELSE IF req.token = "bad"
       THEN /\ response' = ErrorResponse(401)
            /\ sPc' = "done"
            /\ UNCHANGED userProfile
       ELSE IF \E k \in DOMAIN usersTable : usersTable[k].id = req.token
       THEN /\ userProfile' =
                 LET u == usersTable[CHOOSE k \in DOMAIN usersTable : usersTable[k].id = req.token]
                 IN  [id |-> u.id, company_id |-> u.company_id, role |-> u.role]
            /\ sPc' = "body"
            /\ UNCHANGED response
       ELSE /\ response' = ErrorResponse(404)
            /\ sPc' = "done"
            /\ UNCHANGED userProfile
    /\ UNCHANGED <<req, intents, adapters, queried, failed, sResults, sCategories,
                   recentStore, clock, nRequests, touchLog>>
    /\ UNCHANGED clientVars

\* the Authorization header, auth.getUser(token) and the lookup of the users row
Authenticate ==
    /\ sPc = "auth"
    /\ IF req.token = "none" \/ req.token = "bad"
       THEN /\ response' = ErrorResponse(401)
            /\ sPc' = "done"
            /\ UNCHANGED userProfile
       ELSE IF \E k \in DOMAIN usersTable : usersTable[k].id = req.token
       THEN /\ userProfile' =
                 LET u == usersTable[CHOOSE k \in DOMAIN usersTable : usersTable[k].id = req.token]
                 IN  [id |-> u.id, company_id |-> u.company_id, role |-> u.role]
            /\ sPc' = "body"
            /\ UNCHANGED response
       ELSE /\ response' = ErrorResponse(404)
            /\ sPc' = "done"
            /\ UNCHANGED userProfile
    /\ UNCHANGED <<req, intents, adapters, queried, failed, sResults, sCategories,
                   recentStore, clock, nRequests, touchLog>>
    /\ UNCHANGED clientVars

\* the guard with the comparison off by one: query.length < 1
ShortQueryBelowOne ==
    \/ req.body.query.kind = "missing"
    \/ req.body.query.kind = "string" /\ StrLen(Query) < 1

\* !query || query.length < 2
ShortQuery ==
    \/ req.body.query.kind = "missing"
    \/ req.body.query.kind = "string" /\ StrLen(Query) < 2

\* req.json(), the length guard, detectQueryIntent; the four adapters start
ParseBody ==
    /\ sPc = "body"
    /\ IF ShortQuery
       THEN /\ response' = EmptyResponse
            /\ sPc' = "done"
            /\ UNCHANGED intents
       ELSE IF req.body.query.kind # "string"
       THEN \* query.trim is not a function: the catch block
            /\ response' = ErrorResponse(500)
            /\ sPc' = "done"
            /\ UNCHANGED intents
       ELSE /\ intents' = detectQueryIntent(Query)
            /\ sPc' = "fanout"
            /\ UNCHANGED response
    /\ UNCHANGED <<req, userProfile, adapters, queried, failed, sResults, sCategories,
                   recentStore, clock, nRequests, touchLog>>
    /\ UNCHANGED clientVars

\* searchUsers without the check of the role
SkipsQueryAnyRole(a) == FilteredOut(a)

\* the adapter returns [] before any query
SkipsQuery(a) == FilteredOut(a) \/ (a = "users" /\ ~isAdmin)

\* an adapter returns [] without a query to the store
AdapterSkip(a) ==
    /\ sPc = "fanout"
    /\ adapters[a].state = "pending"
    /\ SkipsQuery(a)
    /\ adapters' = [adapters EXCEPT ![a] = Resolved(<<>>)]
    /\ UNCHANGED <<sPc, req, userProfile, intents, queried, failed, sResults,
                   sCategories, response, recentStore, clock, nRequests, touchLog>>
    /\ UNCHANGED clientVars

\* the store answers the query of an adapter with rows; LIMIT must not be
\* negative, such a query is answered with an error
AdapterRows(a) ==
    /\ sPc = "fanout"
    /\ adapters[a].state = "pending"
    /\ ~SkipsQuery(a)
    /\ Limit >= 0
    /\ \E rows \in YieldOrders(Matching(a)) :
           adapters' = [adapters EXCEPT ![a] = Resolved(MapRows(a, Take(rows, Limit)))]
    /\ queried' = queried \cup {a}
    /\ UNCHANGED <<sPc, req, userProfile, intents, failed, sResults, sCategories,
                   response, recentStore, clock, nRequests, touchLog>>
    /\ UNCHANGED clientVars

\* the store answers the query of an adapter with an error: logged, []
AdapterError(a) ==
    /\ sPc = "fanout"
    /\ adapters[a].state = "pending"
    /\ ~SkipsQuery(a)
    /\ adapters' = [adapters EXCEPT ![a] = Resolved(<<>>)]
    /\ queried' = queried \cup {a}
    /\ failed' = failed \cup {a}
    /\ UNCHANGED <<sPc, req, userProfile, intents, sResults, sCategories, response,
                   recentStore, clock, nRequests, touchLog>>
    /\ UNCHANGED clientVars

\* the query of an adapter throws: Promise.all rejects, the catch block answers
AdapterThrow(a) ==
    /\ sPc = "fanout"
    /\ adapters[a].state = "pending"
    /\ ~SkipsQuery(a)
    /\ adapters' = [adapters EXCEPT ![a] = [state |-> "rejected", value |-> <<>>]]
    /\ queried' = queried \cup {a}
    /\ failed' = failed \cup {a}
    /\ response' = ErrorResponse(500)
    /\ sPc' = "done"
    /\ UNCHANGED <<req, userProfile, intents, sResults, sCategories, recentStore,
                   clock, nRequests, touchLog>>
    /\ UNCHANGED clientVars

\* the concatenation pushed into results
Concatenated ==
    adapters["leads"].value \o adapters["users"].value \o adapters["agents"].value
    \o adapters["calls"].value \o searchSettings \o searchNavigation

\* Promise.all resolves: static adapters, push, sort, categories, and the
\* upsert into recent_searches is sent
Merge ==
    /\ sPc = "fanout"
    /\ \A a \in Dynamic : adapters[a].state = "resolved"
    /\ sResults' = SortByPriority(Concatenated)
    /\ sCategories' = Categorize(<<>>, sResults')
    /\ clock' = clock + 1
    /\ sPc' = "upsert"
    /\ UNCHANGED <<req, userProfile, intents, adapters, queried, failed, response,
                   recentStore, nRequests, touchLog>>
    /\ UNCHANGED clientVars

\* the response of the handler
FullResponse ==
    [status |-> 200, body |-> "full", results |-> Slice0(sResults, Limit),
     categories |-> sCategories, totalCount |-> Len(sResults), intents |-> intents]

\* the awaited upsert settles, written or with an error that is ignored; the
\* response is returned
UpsertSettles(written) ==
    /\ sPc = "upsert"
    /\ recentStore' = IF written
                      THEN Upsert(recentStore, userProfile.id, Trim(Query), clock)
                      ELSE recentStore
    /\ touchLog' = IF written
                   THEN touchLog \cup {[user_id |-> userProfile.id, query |-> Trim(Query),
                                         created_at |-> clock]}
                   ELSE touchLog
    /\ response' = FullResponse
    /\ sPc' = "done"
    /\ UNCHANGED <<req, userProfile, intents, adapters, queried, failed, sResults,
                   sCategories, clock, nRequests>>
    /\ UNCHANGED clientVars

\* the response has been sent and the invocation is over: its locals are gone
Finish ==
    /\ sPc = "done"
    /\ sPc' = "idle"
    /\ req' = NoRequest
    /\ userProfile' = NoProfile
    /\ intents' = <<>>
    /\ adapters' = [a \in Dynamic |-> Pending]
    /\ queried' = {}
    /\ failed' = {}
    /\ sResults' = <<>>
    /\ sCategories' = <<>>
    /\ response' = NoResponse
    /\ UNCHANGED <<recentStore, clock, nRequests, touchLog>>
    /\ UNCHANGED clientVars

NextServer ==
    \/ Receive
    \/ Authenticate
    \/ ParseBody
    \/ \E a \in Dynamic : AdapterSkip(a)
    \/ \E a \in Dynamic : AdapterRows(a)
    \/ \E a \in Dynamic : AdapterError(a)
    \/ \E a \in Dynamic : AdapterThrow(a)
    \/ Merge
    \/ \E written \in BOOLEAN : UpsertSettles(written)
    \/ Finish


(* ------------------------------------------------------------------ *)
(* Operations of the client search controller                           *)
(* ------------------------------------------------------------------ *)


\* useGlobalSearch options, defaults
minQueryLength == 2

\* the texts typed into the input
ClientQueries == { <<"a">>, <<"l", "e">>, <<"s", "e", "t">> }

\* the texts typed into the input of the palette
PaletteQueries == { <<"a">>, <<"g", "r", "a">> }

\* what recent_searches can answer to the client's lookup
RecentLists == { <<>>, << <<"l", "e">> >> }

CallIds == 1..MaxCalls

NoTimer == [pending |-> <<>>, live |-> FALSE]

\* debouncedSearch without its clearTimeout
ClearTimeoutNever(t) == t

\* if (debounceTimerRef.current) clearTimeout(debounceTimerRef.current): the
\* ref holds the timer created last, which is the last pending one if it is
\* still pending
ClearTimeout(t) ==
    IF t.live
    THEN [pending |-> SubSeq(t.pending, 1, Len(t.pending) - 1), live |-> FALSE]
    ELSE t

\* debounceTimerRef.current = setTimeout(() => search(q), debounceMs)
SetTimeout(t, q) == [pending |-> Append(t.pending, q), live |-> TRUE]

NoCall == [pc |-> "none", q |-> <<>>, signal |-> 0]

\* a state setter of an unmounted component is dropped by React
SetState(old, new) == IF mounted THEN new ELSE old

\* searchSettings() for the text q, without a filter
SettingsFor(q) ==
    LET lq == ToLowerCase(q)
        hits == SelectSeq(settingsItems,
                          LAMBDA item : \/ Includes(ToLowerCase(item.title), lq)
                                        \/ Includes(ToLowerCase(item.subtitle), lq))
    IN  [k \in DOMAIN hits |->
            SearchResult(hits[k].id, "setting", hits[k].title, hits[k].subtitle,
                         hits[k].url, SettingBase - (k - 1))]

\* searchNavigation() for the text q
NavigationFor(q) ==
    LET lq == ToLowerCase(q)
        hits == SelectSeq(navItems,
                          LAMBDA item : \/ Includes(ToLowerCase(item.title), lq)
                                        \/ Includes(ToLowerCase(item.subtitle), lq)
                                        \/ \E k \in DOMAIN item.keywords :
                                              Includes(item.keywords[k], lq))
    IN  [k \in DOMAIN hits |->
            SearchResult(hits[k].id, "navigation", hits[k].title, hits[k].subtitle,
                         hits[k].url, NavigationBase - (k - 1))]

\* the results of the handler for the text q when no row of the store matches:
\* the static adapters, merged and sorted
StaticResults(q) == SortByPriority(SettingsFor(q) \o NavigationFor(q))

\* the answers to the texts the client sends
StaticAnswers == [q \in ClientQueries \cup PaletteQueries |-> StaticResults(q)]

\* the body of the response to the request of invocation i: id, type and
\* redirectUrl of each result, tagged with the invocation and its text
RespResults(i) ==
    LET hits == StaticAnswers[calls[i].q]
    IN  [k \in DOMAIN hits |->
            [id |-> hits[k].id, type |-> hits[k].type, redirectUrl |-> hits[k].redirectUrl,
             q |-> calls[i].q, call |-> i]]

RespCategories(i) == Categorize(<<>>, RespResults(i))

\* Object.values(categories).flat()
RECURSIVE Flat(_)
Flat(cats) == IF cats = <<>> THEN <<>> ELSE Head(cats).items \o Flat(Tail(cats))

flatResults == Flat(categories)

\* a component without the effect that resets the selection
ResetSelectionNever == selectedIndex' = selectedIndex

\* useEffect(() => setSelectedIndex(0), [results]): runs after every
\* setResults, which always passes a new array
ResetSelection == selectedIndex' = SetState(selectedIndex, 0)

\* abortControllerRef.current.abort() when the ref is set
AbortCurrent == IF abortRef # 0 THEN aborted \cup {abortRef} ELSE aborted

InitClient ==
    /\ query = <<>>
    /\ results = <<>>
    /\ categories = <<>>
    /\ isLoading = FALSE
    /\ error = "null"
    /\ recentSearches = <<>>
    /\ debounceTimer = NoTimer
    /\ abortRef = 0
    /\ aborted = {}
    /\ calls = [i \in CallIds |-> NoCall]
    /\ nCalls = 0
    /\ lastIssued = 0
    /\ recentLookups = 1          \* the mount effect calls fetchRecentSearches()
    /\ mounted = TRUE
    /\ superseded = {}
    /\ isOpen = FALSE
    /\ selectedIndex = 0
    /\ location = ""
    /\ clicks = <<>>
    /\ analytics = <<>>

\* search(searchQuery): the synchronous part, up to the await of getSession()
SearchBody(q) ==
    IF StrLen(q) < minQueryLength
    THEN /\ results' = SetState(results, <<>>)
         /\ categories' = SetState(categories, <<>>)
         /\ ResetSelection
         /\ UNCHANGED <<isLoading, error, abortRef, aborted, calls, nCalls>>
    ELSE /\ nCalls < MaxCalls
         /\ aborted' = AbortCurrent
         /\ abortRef' = nCalls + 1
         /\ isLoading' = SetState(isLoading, TRUE)
         /\ error' = SetState(error, "null")
         /\ nCalls' = nCalls + 1
         /\ calls' = [calls EXCEPT ![nCalls + 1] = [pc |-> "session", q |-> q, signal |-> 0]]
         /\ UNCHANGED <<results, categories, selectedIndex>>

\* the exported search() called by a consumer of the hook
SearchDirect(q) ==
    /\ mounted
    /\ SearchBody(q)
    /\ UNCHANGED <<query, recentSearches, debounceTimer, lastIssued, recentLookups, mounted>>
    /\ UNCHANGED superseded
    /\ UNCHANGED paletteRest
    /\ UNCHANGED serverVars

\* a pending timer expires and its callback calls search()
TimerFire(k) ==
    /\ k \in DOMAIN debounceTimer.pending
    /\ SearchBody(debounceTimer.pending[k])
    /\ debounceTimer' =
          [pending |-> SubSeq(debounceTimer.pending, 1, k - 1)
                       \o SubSeq(debounceTimer.pending, k + 1, Len(debounceTimer.pending)),
           live |-> debounceTimer.live /\ k # Len(debounceTimer.pending)]
    /\ UNCHANGED <<query, recentSearches, lastIssued, recentLookups, mounted>>
    /\ UNCHANGED superseded
    /\ UNCHANGED paletteRest
    /\ UNCHANGED serverVars

\* getSession() resolves without a session: setError, then finally
SessionNone(i) ==
    /\ calls[i].pc = "session"
    /\ error' = SetState(error, "Not authenticated")
    /\ isLoading' = SetState(isLoading, FALSE)
    /\ calls' = [calls EXCEPT ![i].pc = "done"]
    /\ UNCHANGED <<query, results, categories, recentSearches, debounceTimer,
                   abortRef, aborted, nCalls, lastIssued, recentLookups, mounted>>
    /\ UNCHANGED superseded
    /\ UNCHANGED paletteVars
    /\ UNCHANGED serverVars

\* getSession() resolves with a session: fetch() is called with the signal of
\* the controller the ref holds now
SessionOk(i) ==
    /\ calls[i].pc = "session"
    /\ calls' = [calls EXCEPT ![i].pc = "fetch", ![i].signal = abortRef]
    /\ lastIssued' = i
    /\ UNCHANGED <<query, results, categories, isLoading, error, recentSearches,
                   debounceTimer, abortRef, aborted, nCalls, recentLookups, mounted>>
    /\ UNCHANGED superseded
    /\ UNCHANGED paletteVars
    /\ UNCHANGED serverVars

\* the response arrives, is ok and parses: setResults, setCategories,
\* fetchRecentSearches(), then finally
FetchOk(i) ==
    /\ calls[i].pc = "fetch"
    /\ calls[i].signal \notin aborted
    /\ results' = SetState(results, RespResults(i))
    /\ categories' = SetState(categories, RespCategories(i))
    /\ recentLookups' = IF recentLookups < MaxRecentLookups
                        THEN recentLookups + 1 ELSE recentLookups
    /\ isLoading' = SetState(isLoading, FALSE)
    /\ calls' = [calls EXCEPT ![i].pc = "done"]
    /\ UNCHANGED <<query, error, recentSearches, debounceTimer, abortRef, aborted,
                   nCalls, lastIssued, mounted>>
    /\ superseded' = superseded \ {i}
    /\ ResetSelection
    /\ UNCHANGED paletteRest
    /\ UNCHANGED serverVars

\* network failure, a status that is not ok, or a body that does not parse:
\* the catch block, then finally
FetchFail(i, msg) ==
    /\ calls[i].pc = "fetch"
    /\ calls[i].signal \notin aborted
    /\ error' = SetState(error, msg)
    /\ results' = SetState(results, <<>>)
    /\ categories' = SetState(categories, <<>>)
    /\ isLoading' = SetState(isLoading, FALSE)
    /\ calls' = [calls EXCEPT ![i].pc = "done"]
    /\ UNCHANGED <<query, recentSearches, debounceTimer, abortRef, aborted,
                   nCalls, lastIssued, recentLookups, mounted>>
    /\ superseded' = superseded \ {i}
    /\ ResetSelection
    /\ UNCHANGED paletteRest
    /\ UNCHANGED serverVars

\* the fetch was given an aborted signal, or its signal is aborted while it is
\* in flight: it rejects with AbortError; the catch returns, then finally
AbortRejectFinally == FALSE

AbortReject(i) ==
    /\ calls[i].pc = "fetch"
    /\ calls[i].signal \in aborted
    /\ isLoading' = SetState(isLoading, AbortRejectFinally)
    /\ calls' = [calls EXCEPT ![i].pc = "done"]
    /\ UNCHANGED <<query, results, categories, error, recentSearches, debounceTimer,
                   abortRef, aborted, nCalls, lastIssued, recentLookups, mounted>>
    /\ superseded' = superseded \ {i}
    /\ UNCHANGED paletteVars
    /\ UNCHANGED serverVars

\* debouncedSearch without the setIsLoading(false) of line 309
HandleQueryChangeKeepsLoading(q) ==
    /\ mounted
    /\ query' = q
    /\ IF StrLen(q) < minQueryLength
       THEN /\ debounceTimer' = ClearTimeout(debounceTimer)
            /\ results' = <<>>
            /\ categories' = <<>>
            /\ isLoading' = isLoading
       ELSE /\ isLoading' = TRUE
            /\ debounceTimer' = SetTimeout(ClearTimeout(debounceTimer), q)
            /\ UNCHANGED <<results, categories>>
    /\ UNCHANGED <<error, recentSearches, abortRef, aborted, calls, nCalls, lastIssued,
                   recentLookups, mounted>>
    /\ superseded' = superseded \cup {i \in CallIds : calls[i].pc = "fetch"}
    /\ selectedIndex' = IF StrLen(q) < minQueryLength THEN 0 ELSE selectedIndex
    /\ UNCHANGED paletteRest
    /\ UNCHANGED serverVars

\* handleQueryChange(newQuery): setQuery, then debouncedSearch(newQuery)
HandleQueryChange(q) ==
    /\ mounted
    /\ query' = q
    /\ IF StrLen(q) < minQueryLength
       THEN /\ debounceTimer' = ClearTimeout(debounceTimer)
            /\ results' = <<>>
            /\ categories' = <<>>
            /\ isLoading' = FALSE
       ELSE /\ isLoading' = TRUE
            /\ debounceTimer' = SetTimeout(ClearTimeout(debounceTimer), q)
            /\ UNCHANGED <<results, categories>>
    /\ UNCHANGED <<error, recentSearches, abortRef, aborted, calls, nCalls, lastIssued,
                   recentLookups, mounted>>
    /\ superseded' = superseded \cup {i \in CallIds : calls[i].pc = "fetch"}
    /\ selectedIndex' = IF StrLen(q) < minQueryLength THEN 0 ELSE selectedIndex
    /\ UNCHANGED paletteRest
    /\ UNCHANGED serverVars

\* clearSearch()
ClearSearchBody ==
    /\ mounted
    /\ query' = <<>>
    /\ results' = <<>>
    /\ categories' = <<>>
    /\ error' = "null"
    /\ debounceTimer' = ClearTimeout(debounceTimer)
    /\ aborted' = AbortCurrent
    /\ UNCHANGED <<isLoading, recentSearches, abortRef, calls, nCalls, lastIssued,
                   recentLookups, mounted>>
    /\ UNCHANGED superseded

\* clearSearch() called by a consumer of the hook
ClearSearch ==
    /\ ClearSearchBody
    /\ ResetSelection
    /\ UNCHANGED paletteRest
    /\ UNCHANGED serverVars

\* a cleanup that clears the timer and leaves the request alone
TeardownNoAbort ==
    /\ mounted
    /\ mounted' = FALSE
    /\ debounceTimer' = ClearTimeout(debounceTimer)
    /\ UNCHANGED <<query, results, categories, isLoading, error, recentSearches,
                   abortRef, aborted, calls, nCalls, lastIssued, recentLookups>>
    /\ UNCHANGED superseded
    /\ UNCHANGED paletteVars
    /\ UNCHANGED serverVars

\* the cleanup of the mount effect
Teardown ==
    /\ mounted
    /\ mounted' = FALSE
    /\ debounceTimer' = ClearTimeout(debounceTimer)
    /\ aborted' = AbortCurrent
    /\ UNCHANGED <<query, results, categories, isLoading, error, recentSearches,
                   abortRef, calls, nCalls, lastIssued, recentLookups>>
    /\ UNCHANGED superseded
    /\ UNCHANGED paletteVars
    /\ UNCHANGED serverVars

\* one fetchRecentSearches() completes: without a session or data it returns,
\* with data it sets recentSearches
RecentResolve(hasData, data) ==
    /\ recentLookups > 0
    /\ recentLookups' = recentLookups - 1
    /\ recentSearches' = IF hasData THEN SetState(recentSearches, data) ELSE recentSearches
    /\ UNCHANGED <<query, results, categories, isLoading, error, debounceTimer,
                   abortRef, aborted, calls, nCalls, lastIssued, mounted>>
    /\ UNCHANGED superseded
    /\ UNCHANGED paletteVars
    /\ UNCHANGED serverVars

NextClient ==
    \/ \E q \in ClientQueries : SearchDirect(q)
    \/ \E k \in DOMAIN debounceTimer.pending : TimerFire(k)
    \/ \E i \in CallIds : SessionNone(i)
    \/ \E i \in CallIds : SessionOk(i)
    \/ \E i \in CallIds : FetchOk(i)
    \/ \E i \in CallIds : \E msg \in {"Search request failed", "Failed to fetch"} : FetchFail(i, msg)
    \/ \E i \in CallIds : AbortReject(i)
    \/ \E q \in ClientQueries : HandleQueryChange(q)
    \/ ClearSearch
    \/ Teardown
    \/ \E hasData \in BOOLEAN : \E data \in RecentLists : RecentResolve(hasData, data)


(* ------------------------------------------------------------------ *)
(* The command palette: GlobalSearch                                     *)
(* ------------------------------------------------------------------ *)

\* bound: the results activated (calls of trackClick)
MaxSelects == 1

\* Math.max(totalResults, 1)
MaxOne(n) == IF n > 1 THEN n ELSE 1

TotalOrOne == MaxOne(Len(flatResults))

\* prev => (prev + 1) % Math.max(totalResults, 1)
arrowDown(prev, totalResults) == (prev + 1) % MaxOne(totalResults)

\* prev => (prev - 1 + Math.max(totalResults, 1)) % Math.max(totalResults, 1)
arrowUp(prev, totalResults) ==
    (prev - 1 + MaxOne(totalResults)) % MaxOne(totalResults)

\* the index a row is given when each row gets its own position
globalIndexByPosition(k) == k - 1

\* flatResults.findIndex(r => r.id === result.id) for the row at position k
\* (from 1) of the rendered list
globalIndex(k) ==
    (CHOOSE j \in DOMAIN flatResults :
        /\ flatResults[j].id = flatResults[k].id
        /\ \A m \in 1..(j - 1) : flatResults[m].id # flatResults[k].id) - 1

\* isSelected of the row at position k
isSelected(k) == globalIndex(k) = selectedIndex

\* flatResults[selectedIndex] is defined
HasSelected == (selectedIndex + 1) \in DOMAIN flatResults

\* handleOpen(): the open buttons, the toggle shortcut and "/" while closed
HandleOpen ==
    /\ mounted
    /\ ~isOpen
    /\ isOpen' = TRUE
    /\ selectedIndex' = 0
    /\ UNCHANGED <<location, clicks, analytics>>
    /\ UNCHANGED hookVars
    /\ UNCHANGED serverVars

\* handleClose(): setIsOpen(false); clearSearch(); setSelectedIndex(0)
HandleCloseBody ==
    /\ isOpen' = FALSE
    /\ ClearSearchBody
    /\ selectedIndex' = 0

\* the Escape key in the input
Escape ==
    /\ mounted /\ isOpen
    /\ HandleCloseBody
    /\ UNCHANGED <<location, clicks, analytics>>
    /\ UNCHANGED serverVars

\* a mousedown outside the container, or a click on the backdrop
ClickOutside ==
    /\ mounted /\ isOpen
    /\ HandleCloseBody
    /\ UNCHANGED <<location, clicks, analytics>>
    /\ UNCHANGED serverVars

\* Ctrl-K or Cmd-K while the palette is open
ToggleShortcut ==
    /\ mounted /\ isOpen
    /\ HandleCloseBody
    /\ UNCHANGED <<location, clicks, analytics>>
    /\ UNCHANGED serverVars

\* handleSelect(result): trackClick(result) runs up to its first await,
\* navigate(result.redirectUrl), handleClose()
HandleSelect(r) ==
    /\ Len(clicks) + Len(analytics) < MaxSelects
    /\ clicks' = Append(clicks, [pc |-> "session", query |-> query,
                                 result_type |-> r.type, result_id |-> r.id,
                                 results_count |-> Len(results)])
    /\ location' = r.redirectUrl
    /\ HandleCloseBody
    /\ UNCHANGED analytics
    /\ UNCHANGED serverVars

\* the Enter key in the input
PressEnter ==
    /\ mounted /\ isOpen
    /\ IF HasSelected
       THEN HandleSelect(flatResults[selectedIndex + 1])
       ELSE UNCHANGED <<clientVars, serverVars>>

\* a click on the row at position k
ClickResult(k) ==
    /\ mounted /\ isOpen
    /\ k \in DOMAIN flatResults
    /\ HandleSelect(flatResults[k])

\* onMouseEnter of the row at position k
Hover(k) ==
    /\ mounted /\ isOpen
    /\ k \in DOMAIN flatResults
    /\ selectedIndex' = globalIndex(k)
    /\ UNCHANGED paletteRest
    /\ UNCHANGED hookVars
    /\ UNCHANGED serverVars

ArrowDown ==
    /\ mounted /\ isOpen
    /\ selectedIndex' = arrowDown(selectedIndex, Len(flatResults))
    /\ UNCHANGED paletteRest
    /\ UNCHANGED hookVars
    /\ UNCHANGED serverVars

ArrowUp ==
    /\ mounted /\ isOpen
    /\ selectedIndex' = arrowUp(selectedIndex, Len(flatResults))
    /\ UNCHANGED paletteRest
    /\ UNCHANGED hookVars
    /\ UNCHANGED serverVars

\* onChange of the input
OnChange(q) ==
    /\ isOpen
    /\ HandleQueryChange(q)

\* the clear button, rendered when there is a text and nothing is loading
ClearButton ==
    /\ isOpen
    /\ query # <<>> /\ ~isLoading
    /\ HandleQueryChange(<<>>)

Without(list, k) == SubSeq(list, 1, k - 1) \o SubSeq(list, k + 1, Len(list))

\* trackClick: getSession() settles; without a session it returns
TrackSession(k, hasSession) ==
    /\ k \in DOMAIN clicks
    /\ clicks[k].pc = "session"
    /\ clicks' = IF hasSession THEN [clicks EXCEPT ![k].pc = "insert"]
                 ELSE Without(clicks, k)
    /\ UNCHANGED <<isOpen, selectedIndex, location, analytics>>
    /\ UNCHANGED hookVars
    /\ UNCHANGED serverVars

\* trackClick: the lookup of the caller's company, whose result is only passed
\* on, and then the insert into search_analytics settle: the row is written,
\* or the insert returns an error that nobody reads
TrackInsert(k, written) ==
    /\ k \in DOMAIN clicks
    /\ clicks[k].pc = "insert"
    /\ clicks' = Without(clicks, k)
    /\ analytics' = IF written
                    THEN Append(analytics, [query |-> clicks[k].query,
                                            result_type |-> clicks[k].result_type,
                                            result_id |-> clicks[k].result_id,
                                            results_count |-> clicks[k].results_count])
                    ELSE analytics
    /\ UNCHANGED <<isOpen, selectedIndex, location>>
    /\ UNCHANGED hookVars
    /\ UNCHANGED serverVars

\* the palette as the layout mounts it: the text is typed into its input, and
\* the controller's timers and requests run underneath
NextPalette ==
    \/ HandleOpen
    \/ Escape
    \/ ClickOutside
    \/ ToggleShortcut
    \/ PressEnter
    \/ \E k \in 1..Len(flatResults) : ClickResult(k)
    \/ \E k \in 1..Len(flatResults) : Hover(k)
    \/ ArrowDown
    \/ ArrowUp
    \/ \E q \in PaletteQueries : OnChange(q)
    \/ ClearButton
    \/ \E k \in 1..Len(clicks) : \E hasSession \in BOOLEAN : TrackSession(k, hasSession)
    \/ \E k \in 1..Len(clicks) : \E written \in BOOLEAN : TrackInsert(k, written)
    \/ \E k \in DOMAIN debounceTimer.pending : TimerFire(k)
    \/ \E i \in CallIds : SessionNone(i)
    \/ \E i \in CallIds : SessionOk(i)
    \/ \E i \in CallIds : FetchOk(i)
    \/ \E i \in CallIds : \E msg \in {"Search request failed", "Failed to fetch"} : FetchFail(i, msg)
    \/ \E i \in CallIds : AbortReject(i)


(* ------------------------------------------------------------------ *)
(* detectQueryIntent on its own                                          *)
(* ------------------------------------------------------------------ *)

\* length of the enumerated query strings
MaxIntentLen == 3

IntentAlphabet == {"a", "@", ".", "1", " ", "-"}

ExEmail == <<"a", "@", "b", ".", "c", "o">>

ExPhone == <<"+", "1", "-", "5", "5", "5", "-", "0", "1", "0", "1">>

ExUuid == <<"5", "5", "0", "e", "8", "4", "0", "0", "-", "e", "2", "9", "b", "-", "4", "1", "d", "4", "-", "a", "7", "1", "6", "-", "4", "4", "6", "6", "5", "5", "4", "4", "0", "0", "0", "0">>

ExText == <<"h", "e", "l", "l", "o", " ", "w", "o", "r", "l", "d">>

\* the queries classified: every short string over the alphabet, the examples
\* of the specification, and strings around the four patterns
IntentInputs ==
    UNION {[1..n -> IntentAlphabet] : n \in 0..MaxIntentLen}
    \cup {ExEmail, ExPhone, ExUuid, ExText}
    \cup {<<" ", "a", "@", "b", ".", "c", "o", " ">>,
          <<"5", "5", "5", " ", "0", "1", "0", "1", " ", "2", "2">>,
          <<"5", "5", "5", "0", "1", "0", "1">>,
          <<"e", "x", "a", "m", "p", "l", "e", ".", "c", "o", "m">>,
          <<"h", "t", "t", "p", "s", ":", "/", "/", "a", ".", "i", "o">>,
          <<"a", ".", "b", "c", "@", "d", ".", "e", "f">>,
          <<"a", "@", "b">>,
          <<"1", "2", "3", "4", "5", "6", "7", ".", "c", "o">>,
          <<"H", "e", "l", "l", "o">>,
          <<"(", "5", "5", "5", ")", " ", "0", "1", "0", "-", "1", "2", "3", "4">>}

\* line 112 for a request with the query q, once per behaviour
Classify(q) ==
    /\ req = NoRequest
    /\ req' = [NoRequest EXCEPT !.body.query = [kind |-> "string", text |-> q]]
    /\ intents' = detectQueryIntent(q)
    /\ UNCHANGED <<sPc, userProfile, adapters, queried, failed, sResults, sCategories,
                   response, recentStore, clock, nRequests, touchLog>>
    /\ UNCHANGED clientVars

NextIntent == \E q \in IntentInputs : Classify(q)

(* ------------------------------------------------------------------ *)
(* Specifications                                                        *)
(* ------------------------------------------------------------------ *)

vars == <<clientVars, serverVars>>

Init == InitClient /\ InitServer

\* the controller alone, against a server whose answers are RespResults
SpecClient == Init /\ [][NextClient]_vars

\* the scheduling the browser gives the controller: an armed timer expires,
\* getSession() settles, a fetch settles (response, failure or AbortError)
FairClient ==
    /\ WF_vars(\E k \in DOMAIN debounceTimer.pending : TimerFire(k))
    /\ \A i \in CallIds :
         /\ WF_vars(SessionNone(i) \/ SessionOk(i))
         /\ WF_vars(\/ FetchOk(i)
                    \/ \E msg \in {"Search request failed", "Failed to fetch"} : FetchFail(i, msg)
                    \/ AbortReject(i))
    /\ WF_vars(\E hasData \in BOOLEAN : \E data \in RecentLists : RecentResolve(hasData, data))

\* the controller under that scheduling
SpecClientFair == Init /\ [][NextClient]_vars /\ FairClient

\* the palette with its controller
SpecPalette == Init /\ [][NextPalette]_vars

\* the handler alone
SpecServer == Init /\ [][NextServer]_vars

\* detectQueryIntent applied to a set of queries
SpecIntent == Init /\ [][NextIntent]_vars

(* ------------------------------------------------------------------ *)
(* Claims about the client search controller                             *)
(* ------------------------------------------------------------------ *)

\* invocation i leaves its fetch in this step
Completes(i) == calls[i].pc = "fetch" /\ calls'[i].pc = "done"

\* the controller that invocation i created has been aborted: a newer
\* search(), clearSearch() or the teardown superseded it
Cancelled(i) == i \in aborted

\* C1: a response is written to results/categories only when it answers the
\* most recently issued request: the one search() was last called for, or the
\* one whose fetch was last sent.
C1_StaleResponseNeverShown ==
    [][\A i \in CallIds :
         (Completes(i) /\ mounted /\ results' = RespResults(i)
                       /\ categories' = RespCategories(i))
         => (i = nCalls \/ i = lastIssued)]_vars

\* C2: at most one request is in flight with a signal that is not aborted.
C2_OneLiveRequest ==
    Cardinality({i \in CallIds : calls[i].pc = "fetch" /\ calls[i].signal \notin aborted}) <= 1

\* C3: the completion of a cancelled request changes none of results,
\* categories, error and isLoading.
C3_CancelledCompletionFrame ==
    [][\A i \in CallIds :
         (Completes(i) /\ Cancelled(i))
         => UNCHANGED <<results, categories, error, isLoading>>]_vars

\* a pending timer expires in this step and its callback passes the length
\* guard of search()
TimerIssues ==
    /\ Len(debounceTimer'.pending) < Len(debounceTimer.pending)
    /\ nCalls' = nCalls + 1

\* a keystroke leaves no timer but its own pending and does not call search()
KeystrokeResetsTimer ==
    \A q \in ClientQueries :
        HandleQueryChange(q)
        => (debounceTimer'.pending \in {<<>>, <<q>>} /\ calls' = calls /\ nCalls' = nCalls)

\* C19: at most one debounce timer is pending, and it carries the text of the
\* input; a keystroke leaves no timer but its own pending and calls search()
\* for nothing; the search() a timer calls carries the query of the latest
\* keystroke.
C19_OneDebounceTimer ==
    /\ [](/\ Len(debounceTimer.pending) <= 1
          /\ \A k \in DOMAIN debounceTimer.pending : debounceTimer.pending[k] = query)
    /\ [][KeystrokeResetsTimer /\ (TimerIssues => calls'[nCalls'].q = query)]_vars

\* after a request for an earlier text, the timer of a later keystroke is pending
C19_Witness ==
    /\ nCalls = 1 /\ calls[1].q = <<"l", "e">>
    /\ query = <<"s", "e", "t">>
    /\ debounceTimer.pending = << <<"s", "e", "t">> >>

\* C20: the response of a request that was in flight when a keystroke arrived
\* is not written to results and categories.
C20_KeystrokeSupersedesInFlight ==
    [][\A i \in CallIds :
         (Completes(i) /\ i \in superseded /\ mounted)
         => ~(results' = RespResults(i) /\ categories' = RespCategories(i))]_vars

\* C21: a keystroke that makes the query shorter than the minimum length
\* empties results and categories, cancels the pending timer, sets isLoading to
\* false and calls search() for nothing, all in the step of the keystroke.
C21_ShortQueryClearsAtOnce ==
    [][\A q \in ClientQueries :
         (HandleQueryChange(q) /\ StrLen(q) < minQueryLength)
         => /\ results' = <<>> /\ categories' = <<>>
            /\ debounceTimer'.pending = <<>>
            /\ isLoading' = FALSE
            /\ calls' = calls /\ nCalls' = nCalls]_vars

\* the query has shrunk below the minimum while a request was in flight, and
\* the controller shows nothing and waits for no timer
C21_Witness ==
    /\ mounted /\ StrLen(query) < minQueryLength
    /\ superseded # {}
    /\ results = <<>> /\ categories = <<>>
    /\ ~isLoading
    /\ debounceTimer.pending = <<>>

\* C22: while the query is shorter than the minimum length, the completion
\* of a request that was in flight when the query shrank leaves results and
\* categories empty.
C22_ShortQueryStaysEmpty ==
    [][\A i \in CallIds :
         (Completes(i) /\ i \in superseded /\ mounted /\ StrLen(query) < minQueryLength)
         => (results' = <<>> /\ categories' = <<>>)]_vars

\* invocation i of search() has not returned yet
Running(i) == calls[i].pc \in {"session", "fetch"}

\* C23: after the teardown no timer is pending, the controller the ref holds
\* is aborted and every fetch in flight has an aborted signal; from then on no
\* search() starts, no timer is created and no state of the hook changes.
C23_TeardownReleases ==
    /\ [](~mounted => /\ debounceTimer.pending = <<>>
                       /\ abortRef # 0 => abortRef \in aborted
                       /\ \A i \in CallIds :
                             calls[i].pc = "fetch" => calls[i].signal \in aborted)
    /\ [][~mounted => /\ nCalls' = nCalls
                       /\ aborted' = aborted
                       /\ UNCHANGED <<query, results, categories, isLoading, error,
                                       recentSearches, debounceTimer>>]_vars

\* the component is torn down while one search() awaits its session and
\* another has its fetch in flight
C23_Witness ==
    /\ ~mounted
    /\ \E i, j \in CallIds : calls[i].pc = "fetch" /\ calls[j].pc = "session"

\* C29: isLoading is true exactly when a debounce timer is pending or a
\* search() that has not been cancelled is running.
C29_LoadingIffPending ==
    mounted
    => (isLoading <=> \/ debounceTimer.pending # <<>>
                      \/ \E i \in CallIds : Running(i) /\ ~Cancelled(i))

\* an action of the user or of the component that owns the hook
UserStep ==
    \/ \E q \in ClientQueries : HandleQueryChange(q) \/ SearchDirect(q)
    \/ ClearSearch
    \/ Teardown

\* a timer is armed and the model has no invocation left to give it
OutOfCalls == nCalls = MaxCalls /\ debounceTimer.pending # <<>>

Settled ==
    /\ ~isLoading
    /\ debounceTimer.pending = <<>>
    /\ \A i \in CallIds : ~Running(i)
    /\ \/ /\ results # <<>>
          /\ \A k \in DOMAIN results : results[k].q = query
          /\ categories = Categorize(<<>>, results)
       \/ results = <<>> /\ categories = <<>> /\ error # "null"

\* C30: under fair scheduling, once no keystroke follows and the final text
\* has at least minQueryLength characters, the controller comes to rest:
\* isLoading false, nothing pending, and the results and categories those
\* of the response to the final text, or empty with an error message
C30_SettlesOnFinalQuery ==
    (<>[](mounted /\ StrLen(query) >= minQueryLength) /\ <>[][~UserStep]_vars)
    => <>[](Settled \/ OutOfCalls)

(* ------------------------------------------------------------------ *)
(* Claims about the command palette                                      *)
(* ------------------------------------------------------------------ *)

\* C24: while the palette is closed, whichever way it was closed and whatever
\* timer or request was pending then, the query is empty, results and
\* categories are empty, the error is cleared and the selected index is 0
C24_ClosedStaysCleared ==
    ~isOpen => /\ query = <<>>
               /\ results = <<>>
               /\ categories = <<>>
               /\ error = "null"
               /\ selectedIndex = 0

\* C25: arrow-down maps the selected index i to (i + 1) mod max(n, 1) and
\* arrow-up maps it to (i - 1 + max(n, 1)) mod max(n, 1), n the length of the
\* flattened list; the index is always in 0 .. max(n, 1) - 1 and is 0 while the
\* list is empty
C25_ArrowsWrap ==
    LET n == Len(flatResults)
        m == IF n > 1 THEN n ELSE 1
    IN  /\ selectedIndex \in 0..(m - 1)
        /\ n = 0 => selectedIndex = 0
        /\ \A i \in 0..(m - 1) :
             /\ arrowDown(i, n) = (IF i = m - 1 THEN 0 ELSE i + 1)
             /\ arrowUp(i, n) = (IF i = 0 THEN m - 1 ELSE i - 1)

\* the selection has wrapped from the first row to the last of three
C25_Witness == isOpen /\ Len(flatResults) = 3 /\ selectedIndex = 2

\* C26: Enter with a result at the selected index starts the recording of one
\* analytics event for that result, with the query the result was found for
\* and the type and the id of the result, navigates to its path and closes
\* the palette; Enter without a result at the selected index records nothing,
\* does not navigate and does not close
C26_EnterActivatesSelected ==
    [][PressEnter
       => IF HasSelected
          THEN LET r == flatResults[selectedIndex + 1]
               IN  /\ Len(clicks') = Len(clicks) + 1
                   /\ \A k \in DOMAIN clicks : clicks'[k] = clicks[k]
                   /\ LET c == clicks'[Len(clicks')]
                      IN  /\ c.query = r.q
                          /\ c.result_type = r.type
                          /\ c.result_id = r.id
                   /\ location' = r.redirectUrl
                   /\ ~isOpen'
          ELSE UNCHANGED <<analytics, clicks, location, isOpen>>]_vars

\* C27: hovering the row at position k of the flattened list makes the
\* selected index that position, so that the hovered row and no other row is
\* highlighted and Enter activates it
C27_HoverSelectsOwnRow ==
    [][\A k \in DOMAIN flatResults :
         Hover(k) => /\ selectedIndex' = k - 1
                     /\ \A j \in DOMAIN flatResults :
                          (globalIndex(j) = selectedIndex') <=> j = k]_vars

(* ------------------------------------------------------------------ *)
(* Claims about the server handler                                       *)
(* ------------------------------------------------------------------ *)

\* the request passed the authentication block: the caller's users row is read
Authenticated == userProfile # NoProfile

\* the handler has answered a search that ran the aggregation
Answered == sPc = "done" /\ response.body = "full"

Min(a, b) == IF a < b THEN a ELSE b

RECURSIVE SumLen(_)
SumLen(cats) == IF cats = <<>> THEN 0 ELSE Len(Head(cats).items) + SumLen(Tail(cats))

\* C4: an authenticated request with a query of fewer than 2 characters is
\* answered 200 with empty results and categories, whatever the filters, and
\* no adapter runs for it.
C4_ShortQueryEmpty ==
    (Authenticated /\ req.body.query.kind = "string" /\ StrLen(Query) < 2)
    => /\ sPc \in {"body", "done"}
       /\ \A a \in Dynamic : adapters[a].state = "pending"
       /\ queried = {} /\ sResults = <<>> /\ sCategories = <<>>
       /\ sPc = "done" => /\ response.status = 200
                          /\ response.results = <<>>
                          /\ response.categories = <<>>

C4_Witness ==
    /\ sPc = "done" /\ Authenticated
    /\ req.body.query.kind = "string" /\ StrLen(Query) = 1
    /\ Filters # <<>>
    /\ response = EmptyResponse

\* C5: every search response has at most limit results, limit being the one
\* of the request or the default, and no more results than the category
\* buckets hold together.
C5_ResultsBounded ==
    Answered
    => /\ Len(response.results) <= Limit
       /\ Len(response.results) <= SumLen(response.categories)

TypeRank(type) ==
    CASE type = "lead" -> 1 [] type = "user" -> 2 [] type = "agent" -> 3
      [] type = "call" -> 4 [] type = "setting" -> 5 [] type = "navigation" -> 6

\* list is in descending priority order, and elements of equal score are in
\* the order of the concatenation: by adapter, then by the adapter's own order
SortedStable(list) ==
    \A i, j \in DOMAIN list :
        i < j => \/ list[i].priorityScore > list[j].priorityScore
                 \/ /\ list[i].priorityScore = list[j].priorityScore
                    /\ TypeRank(list[i].type) < TypeRank(list[j].type)

\* C6: the results of a search response are sorted by priority score
\* descending, equal scores in concatenation order.
C6_SortedStable ==
    Answered => SortedStable(response.results) /\ SortedStable(sResults)

C6_Witness ==
    /\ Answered
    /\ \E i, j \in DOMAIN response.results :
          /\ i < j
          /\ response.results[i].priorityScore = response.results[j].priorityScore

\* the first n elements of list, none for n <= 0
FirstOf(list, n) == IF n <= 0 THEN <<>> ELSE SubSeq(list, 1, n)

\* every element of list is in exactly one bucket, the one of its type, and
\* each bucket lists its elements in the order of list
Bucketed(cats, list) ==
    /\ SumLen(cats) = Len(list)
    /\ \A k, m \in DOMAIN cats : k # m => cats[k].type # cats[m].type
    /\ \A k \in DOMAIN cats :
          cats[k].items = SelectSeq(list, LAMBDA x : x.type = cats[k].type)

\* C7: results is the first min(limit, total) elements of the sorted merged
\* list; categories holds the whole merged list bucketed by type in rank
\* order; totalCount is the length of the merged list.
C7_ResultsCappedCategoriesNot ==
    Answered
    => /\ response.results = FirstOf(sResults, Min(Limit, Len(sResults)))
       /\ Bucketed(response.categories, sResults)
       /\ response.totalCount = Len(sResults)

\* the response of the execution in which the store yields every table in
\* heap order
HeapOrderResults ==
    LET rows(a) == IF SkipsQuery(a) THEN <<>> ELSE MapRows(a, Take(Matching(a), Limit))
    IN  SortByPriority(rows("leads") \o rows("users") \o rows("agents") \o rows("calls")
                       \o searchSettings \o searchNavigation)

\* C8: with no failing adapter, the response to a search is the same in every
\* execution: it is the one of the execution in which the store yields its
\* rows in heap order.
C8_SameSearchSameResponse ==
    (Answered /\ failed = {} /\ Limit >= 0)
    => /\ response.results = Slice0(HeapOrderResults, Limit)
       /\ response.categories = Categorize(<<>>, HeapOrderResults)

UserIds == {usersTable[k].id : k \in DOMAIN usersTable}

TouchedQueries(u) == {t.query : t \in {x \in touchLog : x.user_id = u}}

\* for each query of u, its last write
LastTouches(u) ==
    {t \in touchLog :
        /\ t.user_id = u
        /\ \A x \in touchLog :
              (x.user_id = u /\ x.query = t.query) => x.created_at <= t.created_at}

\* C9: for every caller recent_searches holds one row per trimmed query, at
\* most 10 rows, and exactly the 10 most recently touched queries, each with
\* the time of its last touch.
C9_RecentSearchesRetention ==
    \A u \in UserIds :
        LET rows == RowsOf(recentStore, u)
            last == LastTouches(u)
        IN  /\ Cardinality(rows) <= 10
            /\ \A r1, r2 \in rows : r1.query = r2.query => r1 = r2
            /\ \A r \in rows : r.query = Trim(r.query)
            /\ rows = {t \in last :
                         Cardinality({o \in last : o.created_at > t.created_at}) < 10}

\* an 11th distinct query has dropped a row, and a repeated query has
\* refreshed one
C9_Witness ==
    /\ Cardinality(TouchedQueries("u1")) > 10
    /\ Cardinality(RowsOf(recentStore, "u1")) = 10
    /\ \E t1, t2 \in touchLog :
          t1.user_id = "u1" /\ t2.user_id = "u1" /\ t1.query = t2.query /\ t1 # t2

\* the results of an adapter whose promise resolved
ResolvedValue(a) == IF adapters[a].state = "resolved" THEN adapters[a].value ELSE <<>>

InCategories(x) ==
    \E k \in DOMAIN response.categories :
        /\ response.categories[k].type = x.type
        /\ \E m \in DOMAIN response.categories[k].items : response.categories[k].items[m] = x

\* C10: when the fetch of a dynamic adapter fails, the response is a success
\* and holds every match of the other adapters.
C10_AdapterIsolation ==
    (sPc = "done" /\ failed # {})
    => /\ response.status = 200
       /\ \A a \in Dynamic \ failed :
             \A k \in DOMAIN ResolvedValue(a) : InCategories(ResolvedValue(a)[k])
       /\ \A k \in DOMAIN searchSettings : InCategories(searchSettings[k])
       /\ \A k \in DOMAIN searchNavigation : InCategories(searchNavigation[k])

\* the ids of the results of the given type in the buckets of the response
IdsInCategories(type) ==
    UNION {{response.categories[k].items[m].id : m \in DOMAIN response.categories[k].items}
              : k \in {c \in DOMAIN response.categories : response.categories[c].type = type}}

HasType(list, type) == \E k \in DOMAIN list : list[k].type = type

LeadTextMatches(r) ==
    IF Has(intents, "email") THEN ILike(r.email, searchPattern)
    ELSE IF Has(intents, "phone") THEN ILike(r.mobile, searchPattern)
    ELSE \/ ILike(r.name, searchPattern)
         \/ ILike(r.email, searchPattern)
         \/ ILike(r.mobile, searchPattern)

\* C12: the leads adapter returns leads of the caller's company only when the
\* caller is not an admin, and the matching leads of all companies, up to
\* limit, when the caller is an admin.
C12_LeadTenantScope ==
    (adapters["leads"].state = "resolved" /\ "leads" \in queried \ failed)
    => LET got == {adapters["leads"].value[k].id : k \in DOMAIN adapters["leads"].value}
           all == {k \in DOMAIN leadsTable : LeadTextMatches(leadsTable[k])}
           own == {k \in all : leadsTable[k].company_id = companyId}
       IN  IF isAdmin
           THEN /\ got \subseteq {leadsTable[k].id : k \in all}
                /\ Cardinality(got) = Min(Limit, Cardinality(all))
           ELSE /\ got \subseteq {leadsTable[k].id : k \in own}
                /\ Cardinality(got) = Min(Limit, Cardinality(own))

\* C28: the pattern the substring filters of the adapters are given is the
\* sanitized query between two % signs, and holds none of the characters
\* & | ! ( ) : < > * \ " ' of the raw query
C28_AdaptersUseSanitized ==
    (sPc \in {"fanout", "upsert", "done"} /\ queried # {})
    => /\ searchPattern = <<"%">> \o ToLowerCase(escapeSearchQuery(Query)) \o <<"%">>
       /\ SeqRange(Query) \cap SpecialChars # {}
          => SeqRange(searchPattern) \cap SpecialChars = {}

\* the request in progress is a POST without a bearer token or with one the
\* identity provider rejects
Unauthenticated == sPc # "idle" /\ req.method = "POST" /\ req.token \in {"none", "bad"}

\* C13: a request with a missing or an invalid bearer token is answered 401,
\* and in that request no adapter runs and no row of recent_searches is
\* written.
C13_NoCredentialNoSearch ==
    [][Unauthenticated
       => /\ recentStore' = recentStore
          /\ queried' = {} /\ failed' = {}
          /\ \A a \in Dynamic : adapters'[a] = Pending
          /\ sPc' \in {"done", "idle"}
          /\ sPc' = "done" => response'.status = 401]_vars

\* a search with a rejected token has been answered
C13_Witness ==
    /\ sPc = "done" /\ req.method = "POST" /\ req.token = "bad"
    /\ req.body.query.kind = "string" /\ StrLen(Query) >= 2
    /\ response.status = 401

\* C14: once authenticated, a request whose query is not a string is answered
\* 200 with empty results, one whose limit is negative is answered with the
\* default limit in force, and no request is answered with a 5xx status.
C14_MalformedInputSafeDefaults ==
    (Authenticated /\ sPc = "done")
    => /\ response.status < 500
       /\ req.body.query.kind = "number"
             => response.status = 200 /\ response.results = <<>>
       /\ Limit < 0
             => /\ response.status = 200
                /\ response.results = FirstOf(sResults, Min(DefaultLimit, Len(sResults)))

\* C15: an authenticated request whose body has no query field is answered
\* with a 4xx status.
C15_MissingQueryClientError ==
    (Authenticated /\ sPc = "done" /\ req.body.query.kind = "missing")
    => response.status \in 400..499

\* C16: the write to recent_searches is fire-and-forget: the response is
\* returned while the write is still pending, and the response is the same
\* whether the write succeeds or fails.
C16_HistoryWriteFireAndForget ==
    /\ sPc = "upsert" => response = FullResponse
    /\ Answered => response = FullResponse

\* C17: detectQueryIntent returns at least one intent for every string; text
\* is among them exactly when none of the email, phone, id and url patterns
\* matches, and then it is the only one; the four examples of the
\* specification are classified as stated.
C17_IntentClassification ==
    req.body.query.kind = "string"
    => LET out == detectQueryIntent(Query)
           none == /\ ~emailRegex(Trim(Query))
                   /\ ~phoneRegex(StripSpaces(Query))
                   /\ ~uuidRegex(Trim(Query))
                   /\ ~urlRegex(Trim(Query))
       IN  /\ intents = out
           /\ out # <<>>
           /\ \A k \in DOMAIN out : out[k] \in {"email", "phone", "id", "url", "text"}
           /\ Has(out, "text") <=> none
           /\ Has(out, "text") => out = <<"text">>
           /\ Query = ExEmail => Has(out, "email")
           /\ Query = ExPhone => Has(out, "phone")
           /\ Query = ExUuid => Has(out, "id")
           /\ Query = ExText => out = <<"text">>

\* the canonical UUID has been classified as an id
C17_Witness ==
    /\ Query = ExUuid
    /\ intents = <<"id">>

\* the filter tag of the adapter that emits results of the given type
FilterTag(type) ==
    CASE type = "lead" -> "leads" [] type = "user" -> "users" [] type = "agent" -> "agents"
      [] type = "call" -> "calls" [] type = "setting" -> "settings"
      [] type = "navigation" -> "navigation"

\* C18: with a filter set that is not empty, an adapter of leads, users,
\* agents, calls or settings whose tag is not in the set sends no query and
\* contributes no result, and the navigation adapter contributes all its
\* matches.
C18_FiltersHonoured ==
    (Authenticated /\ Len(Filters) > 0)
    => /\ \A a \in Dynamic :
             ~Has(Filters, a) => (a \notin queried /\ adapters[a].value = <<>>)
       /\ \A k \in DOMAIN sResults :
             sResults[k].type # "navigation" => Has(Filters, FilterTag(sResults[k].type))
       /\ Answered
             => {sResults[k].id : k \in {m \in DOMAIN sResults : sResults[m].type = "navigation"}}
                = {navItems[k].id : k \in {m \in DOMAIN navItems : NavigationMatches(navItems[m])}}

\* a search filtered to leads and users has been answered with leads and
\* navigation matches, while agents and settings that match are left out
C18_Witness ==
    /\ Answered
    /\ Filters = <<"leads", "users">>
    /\ HasType(sResults, "lead") /\ HasType(sResults, "navigation")
    /\ Matching("agents") # <<>>
    /\ \E k \in DOMAIN settingsItems : SettingMatches(settingsItems[k])
    /\ ~HasType(sResults, "agent") /\ ~HasType(sResults, "setting")

====
